---- MODULE Spec2Model ----
(***************************************************************************)
(* RummyLite rule engine: Card / Deck / DiscardPile (src/game/Card.ts),    *)
(* Player (Player.ts), TurnManager, GameValidator, ScoreManager and the    *)
(* Game orchestrator (Game.ts), modelled as one state machine.             *)
(*                                                                         *)
(* A card is a number: 0..51 is the card (suit, rank) as Deck.initialize   *)
(* creates it (isJoker = false); c + 52 is the same suit and rank with     *)
(* isJoker = true (only Card.createJoker / a deserialized record makes     *)
(* one).  Card.id is `${suit}-${rank}`, so both share the id c % 52.       *)
(***************************************************************************)
EXTENDS Integers, Sequences, FiniteSets, TLC

VARIABLES status, deck, discardPile, hand, melds, score, hasLaidRun,
          currentPlayerIndex, direction, currentTurnPhase,
          firstPlayerDiscarded, lastDrawFromDiscard, winner, gameOverReason,
          jokerReferenceCard, lastAction, pendingMelds, lastCall, origin,
          probe

gameVars == <<status, deck, discardPile, hand, melds, score, hasLaidRun,
              currentPlayerIndex, direction, currentTurnPhase,
              firstPlayerDiscarded, lastDrawFromDiscard, winner,
              gameOverReason, jokerReferenceCard, lastAction>>

\* pendingMelds: the createMeld calls suspended at their await, oldest first
\* lastCall: the method called last and its outcome
\* origin: how the Game object was made, "new" or "fromData"
\* probe: a static function of the engine applied to an input, outside a game
vars == <<gameVars, pendingMelds, lastCall, origin, probe>>

(***************************************************************************)
(* Program constants                                                       *)
(***************************************************************************)
NumPlayers == 4
NumSuits == 4
NumRanks == 13
DeckSize == 52
FirstHandSize == 8
HandSize == 7

Players == 0..(NumPlayers - 1)
\* an id that belongs to no player of the game (getPlayer returns undefined)
NoSuchPlayer == NumPlayers
PlayerIds == 0..NumPlayers
\* `undefined` for winner, jokerReferenceCard, drawCount, cardId
Undefined == -1

(***************************************************************************)
(* Bounds of the model                                                     *)
(***************************************************************************)
\* shuffles are drawn from the permutations Shuffle(_, 0 .. MaxSeed)
MaxSeed == 1
\* Math.random() picks the joker determiner among MaxDeterminer + 1 indexes
MaxDeterminer == 1
\* createMeld calls suspended at `await import('./Card')` at the same time
MaxPending == 1
\* longest hand in a deserialized GameData record
MaxDataHand == 5
\* largest drawCount argument tried
MaxDrawCount == 4
\* createMeld picks its cards among the first MaxPick cards of the hand
MaxPick == 5

(***************************************************************************)
(* Card                                                                    *)
(***************************************************************************)
CardId(c) == c % DeckSize
isJoker(c) == c >= DeckSize
\* suits in the order of Deck.initialize: hearts, diamonds, clubs, spades
Suit(c) == (c % DeckSize) \div NumRanks
\* ranks in the order of Deck.initialize: 0 = 'A', 1 = '2', .. 9 = '10',
\* 10 = 'J', 11 = 'Q', 12 = 'K'
Rank(c) == c % NumRanks
Ace == 0

CARD_VALUES(r) == IF r = Ace THEN 15 ELSE IF r >= 10 THEN 10 ELSE 5
WINNING_CARD_VALUES(r) == IF r = Ace THEN 150 ELSE IF r >= 10 THEN 100 ELSE 50

value(c) == CARD_VALUES(Rank(c))
getWinningValue(c) == IF isJoker(c) THEN 250 ELSE WINNING_CARD_VALUES(Rank(c))

matchesByRank(a, b) == Rank(a) = Rank(b) /\ Suit(a) # Suit(b)
Abs(x) == IF x < 0 THEN -x ELSE x
formsSequenceWith(a, b) == Suit(a) = Suit(b) /\ Abs(value(a) - value(b)) = 1

\* Deck.initialize: suits outer loop, ranks inner loop
CanonicalDeck == [i \in 1..DeckSize |-> i - 1]

(***************************************************************************)
(* Sequence helpers (Array.prototype.sort is stable)                       *)
(***************************************************************************)
\* every card value the model can hold
AllCards == 0..(2 * DeckSize - 1)

\* key is a function from cards to numbers
RECURSIVE InsertByKey(_, _, _)
InsertByKey(s, x, key) ==
  IF s = <<>> THEN <<x>>
  ELSE IF key[s[Len(s)]] <= key[x] THEN Append(s, x)
  ELSE Append(InsertByKey(SubSeq(s, 1, Len(s) - 1), x, key), s[Len(s)])

RECURSIVE StableSort(_, _)
StableSort(s, key) ==
  IF s = <<>> THEN <<>>
  ELSE InsertByKey(StableSort(SubSeq(s, 1, Len(s) - 1), key), s[Len(s)], key)

RECURSIVE SumSeq(_, _)
SumSeq(s, f) == IF s = <<>> THEN 0 ELSE f[Head(s)] + SumSeq(Tail(s), f)

Count(s, P(_)) == Cardinality({i \in 1..Len(s) : P(s[i])})

(***************************************************************************)
(* GameValidator: meld predicates                                          *)
(***************************************************************************)
\* the last non-joker card among sortedCards[1..i-1], or Undefined
prevNonJoker(sortedCards, i) ==
  LET idx == {j \in 1..(i - 1) : ~isJoker(sortedCards[j])}
  IN IF idx = {} THEN Undefined
     ELSE sortedCards[CHOOSE j \in idx : \A k \in idx : k <= j]

isValidRun(cards) ==
  IF Len(cards) < 3 \/ Len(cards) > 4 THEN FALSE
  ELSE
    LET allAces == \A i \in 1..Len(cards) :
                      Rank(cards[i]) = Ace \/ isJoker(cards[i])
        aceCount == Count(cards, LAMBDA c : Rank(c) = Ace)
        sortedCards == StableSort(cards, [c \in AllCards |-> value(c)])
        suit == Suit(sortedCards[1])
    IN IF allAces /\ aceCount = 4 THEN TRUE
       ELSE IF ~(\A i \in 1..Len(sortedCards) :
                   Suit(sortedCards[i]) = suit \/ isJoker(sortedCards[i]))
            THEN FALSE
       ELSE \A i \in 2..Len(sortedCards) :
              LET prevCard == sortedCards[i - 1]
                  currCard == sortedCards[i]
                  pnj == prevNonJoker(sortedCards, i)
              IN IF isJoker(currCard) THEN TRUE
                 ELSE IF isJoker(prevCard)
                      THEN ~(pnj # Undefined /\ value(currCard) # value(pnj) + 1)
                 ELSE value(currCard) = value(prevCard) + 1

\* isValidSet without the test of the number of cards
isValidSet_AnyLength(cards) ==
  LET nonJokers == SelectSeq(cards, LAMBDA c : ~isJoker(c))
  IN IF Len(nonJokers) = 0 THEN FALSE
     ELSE /\ \A i \in 1..Len(nonJokers) :
               Rank(nonJokers[i]) = Rank(nonJokers[1])
          /\ \A i, j \in 1..Len(nonJokers) :
               i # j => Suit(nonJokers[i]) # Suit(nonJokers[j])

\* isValidSet without the test for duplicate suits
isValidSet_AnySuits(cards) ==
  IF Len(cards) < 3 \/ Len(cards) > 4 THEN FALSE
  ELSE
    LET nonJokers == SelectSeq(cards, LAMBDA c : ~isJoker(c))
    IN IF Len(nonJokers) = 0 THEN FALSE
       ELSE \A i \in 1..Len(nonJokers) :
              Rank(nonJokers[i]) = Rank(nonJokers[1])

isValidSet(cards) ==
  IF Len(cards) < 3 \/ Len(cards) > 4 THEN FALSE
  ELSE
    LET nonJokers == SelectSeq(cards, LAMBDA c : ~isJoker(c))
    IN IF Len(nonJokers) = 0 THEN FALSE
       ELSE IF ~(\A i \in 1..Len(nonJokers) :
                   Rank(nonJokers[i]) = Rank(nonJokers[1]))
            THEN FALSE
       ELSE Cardinality({Suit(nonJokers[i]) : i \in 1..Len(nonJokers)})
              = Len(nonJokers)

\* isValidMeld trying the set before the run
isValidMeld_SetFirst(cards) ==
  IF isValidSet(cards) THEN [valid |-> TRUE, type |-> "set"]
  ELSE IF isValidRun(cards) THEN [valid |-> TRUE, type |-> "run"]
  ELSE [valid |-> FALSE, type |-> "none"]

\* [valid, type]; type is "none" when invalid
isValidMeld(cards) ==
  IF isValidRun(cards) THEN [valid |-> TRUE, type |-> "run"]
  ELSE IF isValidSet(cards) THEN [valid |-> TRUE, type |-> "set"]
  ELSE [valid |-> FALSE, type |-> "none"]

(***************************************************************************)
(* The Game object as one record; the handlers below map a Game record to  *)
(* the Game record after the call.                                         *)
(***************************************************************************)
Game == [status |-> status, deck |-> deck, discardPile |-> discardPile,
         hand |-> hand, melds |-> melds, score |-> score,
         hasLaidRun |-> hasLaidRun,
         currentPlayerIndex |-> currentPlayerIndex, direction |-> direction,
         currentTurnPhase |-> currentTurnPhase,
         firstPlayerDiscarded |-> firstPlayerDiscarded,
         lastDrawFromDiscard |-> lastDrawFromDiscard,
         winner |-> winner, gameOverReason |-> gameOverReason,
         jokerReferenceCard |-> jokerReferenceCard,
         lastAction |-> lastAction]

Install(g) ==
  /\ status' = g.status
  /\ deck' = g.deck
  /\ discardPile' = g.discardPile
  /\ hand' = g.hand
  /\ melds' = g.melds
  /\ score' = g.score
  /\ hasLaidRun' = g.hasLaidRun
  /\ currentPlayerIndex' = g.currentPlayerIndex
  /\ direction' = g.direction
  /\ currentTurnPhase' = g.currentTurnPhase
  /\ firstPlayerDiscarded' = g.firstPlayerDiscarded
  /\ lastDrawFromDiscard' = g.lastDrawFromDiscard
  /\ winner' = g.winner
  /\ gameOverReason' = g.gameOverReason
  /\ jokerReferenceCard' = g.jokerReferenceCard
  /\ lastAction' = g.lastAction

(***************************************************************************)
(* Player                                                                  *)
(***************************************************************************)
hasCard(h, cardId) == \E i \in 1..Len(h) : CardId(h[i]) = cardId

\* hand.findIndex(card => card.id === cardId) + 1, 0 when absent
findIndex(h, cardId) ==
  IF hasCard(h, cardId)
  THEN CHOOSE i \in 1..Len(h) :
         CardId(h[i]) = cardId /\ \A j \in 1..(i - 1) : CardId(h[j]) # cardId
  ELSE 0

removeCard(h, cardId) ==
  LET i == findIndex(h, cardId)
  IN IF i = 0 THEN h ELSE SubSeq(h, 1, i - 1) \o SubSeq(h, i + 1, Len(h))

RECURSIVE removeCards(_, _)
removeCards(h, cardIds) ==
  IF cardIds = <<>> THEN h
  ELSE removeCards(removeCard(h, Head(cardIds)), Tail(cardIds))

\* sort by value, then by suit order
sortHand(h) ==
  StableSort(h, [c \in AllCards |-> value(c) * NumSuits + Suit(c)])

\* canWin testing for an empty hand, as hasWon does
canWin_EmptyHand(g, p) ==
  Len(g.hand[p]) = 0 /\ Len(g.melds[p]) > 0 /\ g.hasLaidRun[p]

canWin(g, p) ==
  Len(g.hand[p]) = 1 /\ Len(g.melds[p]) > 0 /\ g.hasLaidRun[p]

hasWon(g, p) == Len(g.hand[p]) = 0 /\ Len(g.melds[p]) > 0

hasMatchingPair(h, topCard) ==
  \E i \in 1..Len(h) :
    matchesByRank(h[i], topCard) \/ formsSequenceWith(h[i], topCard)

\* the cards at the top of the pile, down to the first one that matches
\* nothing in the hand; returns a Card[]
getMatchingCardsSequence(h, pile) ==
  LET n == Len(pile)
      stop == {i \in 1..n : ~hasMatchingPair(h, pile[i])}
      from == IF stop = {} THEN 1
              ELSE (CHOOSE i \in stop : \A j \in stop : j <= i) + 1
  IN SubSeq(pile, from, n)

\* addMeld leaving hasLaidRun as it is
addMeld_NoRunFlag(g, p, meld) ==
  [g EXCEPT !.melds[p] = Append(@, meld)]

\* addMeld replacing the declared melds by the new one
addMeld_Replacing(g, p, meld) ==
  [g EXCEPT !.melds[p] = <<meld>>,
            !.hasLaidRun[p] = @ \/ meld.type = "run"]

\* addMeld: push the meld, set hasLaidRun when it is a run
addMeld(g, p, meld) ==
  [g EXCEPT !.melds[p] = Append(@, meld),
            !.hasLaidRun[p] = @ \/ meld.type = "run"]

(***************************************************************************)
(* TurnManager                                                             *)
(***************************************************************************)
\* getNextPlayerIndex stepping against the direction
getNextPlayerIndex_Backwards(g) ==
  LET nextIndex == g.currentPlayerIndex - g.direction
  IN IF nextIndex >= NumPlayers THEN 0
     ELSE IF nextIndex < 0 THEN NumPlayers - 1
     ELSE nextIndex

getNextPlayerIndex(g) ==
  LET nextIndex == g.currentPlayerIndex + g.direction
  IN IF nextIndex >= NumPlayers THEN 0
     ELSE IF nextIndex < 0 THEN NumPlayers - 1
     ELSE nextIndex

nextTurn(g) ==
  [g EXCEPT !.currentPlayerIndex = getNextPlayerIndex(g),
            !.lastDrawFromDiscard = FALSE]

\* type is "draw", "discard" or "meld"; drawCount is details.drawCount
recordAction(g, type, drawCount) ==
  [g EXCEPT !.lastDrawFromDiscard =
               IF type = "draw" /\ drawCount # Undefined /\ drawCount # 0
                  /\ drawCount > 1
               THEN TRUE ELSE @,
            !.firstPlayerDiscarded =
               IF type = "discard" /\ ~@ THEN TRUE ELSE @]

\* reset leaving the first discard marked as done
reset_FirstDiscardDone(g) ==
  [g EXCEPT !.currentPlayerIndex = 0, !.direction = 1,
            !.firstPlayerDiscarded = TRUE, !.lastDrawFromDiscard = FALSE]

reset(g) ==
  [g EXCEPT !.currentPlayerIndex = 0, !.direction = 1,
            !.firstPlayerDiscarded = FALSE, !.lastDrawFromDiscard = FALSE]

(***************************************************************************)
(* ScoreManager                                                            *)
(***************************************************************************)
\* calculateHandScore counting every joker as used in a meld
calculateHandScore_JokerAlwaysTen(h, usedInMelds) ==
  SumSeq(h, [c \in AllCards |-> IF isJoker(c) THEN 10 ELSE value(c)])

calculateHandScore(h, usedInMelds) ==
  SumSeq(h, [c \in AllCards |->
               IF isJoker(c)
               THEN IF \E i \in 1..Len(usedInMelds) :
                         CardId(usedInMelds[i]) = CardId(c)
                    THEN 10 ELSE -25
               ELSE value(c)])

calculateWinningScore(finalCard) == getWinningValue(finalCard)

RECURSIVE calculateMeldBonus(_)
calculateMeldBonus(ms) ==
  IF ms = <<>> THEN 0
  ELSE 10 + (IF Len(Head(ms).cards) = 4 THEN 5 ELSE 0)
       + calculateMeldBonus(Tail(ms))

RECURSIVE meldCardsOf(_)
meldCardsOf(ms) ==
  IF ms = <<>> THEN <<>> ELSE Head(ms).cards \o meldCardsOf(Tail(ms))

\* totalScore of every player, called without a winnerId
calculateRoundScores(g) ==
  [p \in Players |->
     calculateHandScore(g.hand[p], meldCardsOf(g.melds[p]))
     + calculateMeldBonus(g.melds[p])]

(***************************************************************************)
(* GameValidator: actions                                                  *)
(***************************************************************************)
\* `const { matchingCards } = player.getMatchingCardsSequence(...)`: the
\* method returns an array, an array has no property matchingCards, so the
\* destructured constant is undefined and `matchingCards.length` throws a
\* TypeError, which rejects the drawCard promise.
matchingCardsOf(array) == [defined |-> FALSE, cards |-> <<>>]

\* validateDrawAction accepting every draw
validateDrawAction_AlwaysValid(g, drawFromDiscardCount) ==
  TRUE

validateDrawAction(g, drawFromDiscardCount) ==
  LET p == g.currentPlayerIndex
      m == matchingCardsOf(getMatchingCardsSequence(g.hand[p], g.discardPile))
  IN IF ~g.firstPlayerDiscarded /\ g.currentPlayerIndex = 0
        /\ Len(g.hand[p]) = FirstHandSize
     THEN FALSE
     ELSE IF ~m.defined THEN FALSE
     ELSE IF drawFromDiscardCount # Undefined
     THEN IF Len(m.cards) = 0 THEN FALSE
          ELSE IF drawFromDiscardCount # Len(m.cards) THEN FALSE
          ELSE IF Len(g.discardPile) < drawFromDiscardCount THEN FALSE
          ELSE TRUE
     ELSE IF Len(m.cards) > 0 THEN FALSE
          ELSE IF Len(g.deck) = 0 THEN FALSE
          ELSE TRUE

\* validateDiscardAction without the refusal after a draw from the discard pile
validateDiscardAction_NoMeldDuty(g, cardId) ==
  LET p == g.currentPlayerIndex
  IN IF cardId = Undefined THEN FALSE
     ELSE hasCard(g.hand[p], cardId)

validateDiscardAction(g, cardId) ==
  LET p == g.currentPlayerIndex
  IN IF cardId = Undefined THEN FALSE
     ELSE IF ~hasCard(g.hand[p], cardId) THEN FALSE
     ELSE IF ~g.firstPlayerDiscarded /\ g.currentPlayerIndex = 0
             /\ Len(g.hand[p]) = FirstHandSize
     THEN TRUE
     ELSE IF g.lastDrawFromDiscard THEN FALSE
     ELSE TRUE

\* validateMeldAction without the check that the cards form a meld
validateMeldAction_NoMeldCheck(g, meldCards) ==
  LET p == g.currentPlayerIndex
  IN IF Len(meldCards) = 0 THEN FALSE
     ELSE IF ~(\A i \in 1..Len(meldCards) :
                 hasCard(g.hand[p], CardId(meldCards[i])))
     THEN FALSE
     ELSE IF ~g.hasLaidRun[p] /\ isValidMeld(meldCards).type # "run"
     THEN FALSE
     ELSE TRUE

\* validateMeldAction without the rule that the first meld is a run
validateMeldAction_NoRunFirst(g, meldCards) ==
  LET p == g.currentPlayerIndex
  IN IF Len(meldCards) = 0 THEN FALSE
     ELSE IF ~(\A i \in 1..Len(meldCards) :
                 hasCard(g.hand[p], CardId(meldCards[i])))
     THEN FALSE
     ELSE IF ~isValidMeld(meldCards).valid THEN FALSE
     ELSE TRUE

validateMeldAction(g, meldCards) ==
  LET p == g.currentPlayerIndex
  IN IF Len(meldCards) = 0 THEN FALSE
     ELSE IF ~(\A i \in 1..Len(meldCards) :
                 hasCard(g.hand[p], CardId(meldCards[i])))
     THEN FALSE
     ELSE IF ~isValidMeld(meldCards).valid THEN FALSE
     ELSE IF ~g.hasLaidRun[p] /\ isValidMeld(meldCards).type # "run"
     THEN FALSE
     ELSE TRUE

\* validateAction without the check that it is the caller's turn
validateAction_NoTurnCheck(g, playerId, action, arg) ==
  IF g.status # "playing" THEN FALSE
  ELSE CASE action = "draw" -> validateDrawAction(g, arg)
         [] action = "discard" -> validateDiscardAction(g, arg)
         [] action = "meld" -> validateMeldAction(g, arg)

\* validateAction without the check that the game is being played
validateAction_NoPlayingCheck(g, playerId, action, arg) ==
  IF g.currentPlayerIndex # playerId THEN FALSE
  ELSE CASE action = "draw" -> validateDrawAction(g, arg)
         [] action = "discard" -> validateDiscardAction(g, arg)
         [] action = "meld" -> validateMeldAction(g, arg)

\* arg is the cardId, the meldCards or the drawFromDiscardCount
validateAction(g, playerId, action, arg) ==
  IF g.currentPlayerIndex # playerId THEN FALSE
  ELSE IF g.status # "playing" THEN FALSE
  ELSE CASE action = "draw" -> validateDrawAction(g, arg)
         [] action = "discard" -> validateDiscardAction(g, arg)
         [] action = "meld" -> validateMeldAction(g, arg)

\* validateGameStart accepting every player count
validateGameStart_Any(playerCount) ==
  TRUE

validateGameStart(playerCount) ==
  playerCount = NumPlayers

\* [gameOver, winner, reason]
isGameOver(g) ==
  IF \E p \in Players : hasWon(g, p)
  THEN [gameOver |-> TRUE,
        winner |-> CHOOSE p \in Players :
                     hasWon(g, p) /\ \A q \in Players : hasWon(g, q) => p <= q,
        reason |-> "memukul"]
  ELSE IF Len(g.deck) = 0
  THEN [gameOver |-> TRUE, winner |-> Undefined, reason |-> "deck_empty"]
  ELSE [gameOver |-> FALSE, winner |-> Undefined, reason |-> "none"]

(***************************************************************************)
(* Deck and DiscardPile                                                    *)
(***************************************************************************)
Min(a, b) == IF a < b THEN a ELSE b

\* Deck.draw: cards.splice(0, count)
draw(d, count) ==
  [drawn |-> SubSeq(d, 1, Min(count, Len(d))),
   rest |-> SubSeq(d, Min(count, Len(d)) + 1, Len(d))]

\* DiscardPile.getLastCards: cards.slice(-count)
getLastCards(pile, count) ==
  SubSeq(pile, Len(pile) - Min(count, Len(pile)) + 1, Len(pile))

\* DiscardPile.takeCards: cards.splice(-count)
takeCards(pile, count) ==
  [taken |-> getLastCards(pile, count),
   rest |-> SubSeq(pile, 1, Len(pile) - Min(count, Len(pile)))]

\* Deck.shuffle is a Fisher-Yates shuffle driven by Math.random(): any
\* permutation can come out.  The model draws it from a family of
\* permutations indexed by a seed; seed 0 is the identity.  Every stride is
\* coprime to the two lengths shuffled (52 and 103).
Strides == <<1, 3, 5, 7, 9, 11, 15, 17, 19, 21>>
shuffle(d, seed) ==
  LET n == Len(d)
      stride == Strides[(seed % Len(Strides)) + 1]
  IN [i \in 1..n |-> d[(((i - 1) * stride + 5 * seed) % n) + 1]]

(***************************************************************************)
(* Game: round initialisation                                              *)
(***************************************************************************)
\* randomIndex is Math.floor(Math.random() * allCards.length) + 1
setupJokerSystem(g, randomIndex, seed) ==
  LET allCards == g.deck
      jokerDeterminer == allCards[randomIndex]
      remainingCards ==
        SelectSeq(allCards, LAMBDA c : CardId(c) # CardId(jokerDeterminer))
      \* this.deck = new Deck(): the constructor fills the new deck with 52
      \* cards; addCards pushes the 51 remaining cards after them
      newDeck == CanonicalDeck \o remainingCards
  IN [g EXCEPT !.deck = shuffle(newDeck, seed),
               !.jokerReferenceCard = jokerDeterminer]

setCurrentPlayerIndex(g, index) ==
  IF index >= 0 /\ index < NumPlayers
  THEN [g EXCEPT !.currentPlayerIndex = index] ELSE g

\* dealCards giving 7 cards to every player
RECURSIVE dealFrom_SevenEach(_, _, _)
dealFrom_SevenEach(g, firstPlayerIndex, p) ==
  IF p >= NumPlayers THEN g
  ELSE LET d == draw(g.deck, HandSize)
       IN dealFrom_SevenEach([g EXCEPT !.deck = d.rest,
                                       !.hand[p] = sortHand(@ \o d.drawn)],
                             firstPlayerIndex, p + 1)

\* players.forEach from player p on
RECURSIVE dealFrom(_, _, _)
dealFrom(g, firstPlayerIndex, p) ==
  IF p >= NumPlayers THEN g
  ELSE LET cardsCount == IF p = firstPlayerIndex THEN FirstHandSize
                         ELSE HandSize
           d == draw(g.deck, cardsCount)
       IN dealFrom([g EXCEPT !.deck = d.rest,
                             !.hand[p] = sortHand(@ \o d.drawn)],
                   firstPlayerIndex, p + 1)

dealCards(g, firstPlayerIndex) ==
  dealFrom(setCurrentPlayerIndex(g, firstPlayerIndex), firstPlayerIndex, 0)

initializeGame(g, seed1, randomIndex, seed2, firstPlayerIndex) ==
  LET g1 == [g EXCEPT !.deck = shuffle(g.deck, seed1)]
      g2 == setupJokerSystem(g1, randomIndex, seed2)
      g3 == dealCards(g2, firstPlayerIndex)
      g4 == reset(g3)
  IN [g4 EXCEPT !.currentTurnPhase =
         IF Len(g4.hand[g4.currentPlayerIndex]) = FirstHandSize
         THEN "discardPhase" ELSE "drawPhase"]

\* [ok, g]: ok is FALSE when the call throws
start(g, seed1, randomIndex, seed2, firstPlayerIndex) ==
  IF g.status # "lobby" THEN [ok |-> FALSE, g |-> g]
  ELSE [ok |-> TRUE,
        g |-> initializeGame([g EXCEPT !.status = "playing"],
                             seed1, randomIndex, seed2, firstPlayerIndex)]

(***************************************************************************)
(* Game: actions                                                           *)
(***************************************************************************)
nextTurnPhase(g) ==
  CASE g.currentTurnPhase = "drawPhase" ->
         [g EXCEPT !.currentTurnPhase = "meldPhase"]
    [] g.currentTurnPhase = "meldPhase" ->
         [g EXCEPT !.currentTurnPhase = "discardPhase"]
    [] OTHER -> g

startNewTurn(g) == [g EXCEPT !.currentTurnPhase = "drawPhase"]

skipMeldPhase(g) ==
  IF g.currentTurnPhase = "meldPhase" THEN nextTurnPhase(g) ELSE g

checkGameOver(g) ==
  IF g.status = "finished" THEN g
  ELSE LET gameOverStatus == isGameOver(g)
       IN IF ~gameOverStatus.gameOver THEN g
          ELSE [g EXCEPT !.status = "finished",
                         !.winner = gameOverStatus.winner,
                         !.gameOverReason = gameOverStatus.reason,
                         !.score = IF gameOverStatus.reason = "deck_empty"
                                   THEN calculateRoundScores(g) ELSE @]

\* drawCard without the validator and without the meld check of a multi-card
\* pickup
drawCard_Unchecked(g, playerId, fromDiscard, drawCount) ==
  IF g.currentTurnPhase # "drawPhase" THEN [ok |-> FALSE, g |-> g]
  ELSE IF playerId \notin Players THEN [ok |-> FALSE, g |-> g]
  ELSE
    LET viaDiscard == fromDiscard /\ drawCount # Undefined /\ drawCount # 0
                      /\ drawCount > 0
        taken == takeCards(g.discardPile, drawCount)
        drawn == draw(g.deck, 1)
        drawnCards == IF viaDiscard THEN taken.taken ELSE drawn.drawn
        g1 == IF viaDiscard
              THEN [g EXCEPT !.discardPile = taken.rest,
                             !.lastDrawFromDiscard = TRUE,
                             !.hand[playerId] = @ \o taken.taken]
              ELSE [g EXCEPT !.deck = drawn.rest,
                             !.lastDrawFromDiscard = FALSE,
                             !.hand[playerId] = @ \o drawn.drawn]
        g2 == recordAction(g1, "draw", Len(drawnCards))
        g3 == [g2 EXCEPT !.lastAction =
                            [type |-> "draw", playerId |-> playerId]]
    IN IF viaDiscard /\ (drawCount < 1 \/ drawCount > 3)
       THEN [ok |-> FALSE, g |-> g]
       ELSE IF viaDiscard /\ Len(g.discardPile) < drawCount
       THEN [ok |-> FALSE, g |-> g]
       ELSE [ok |-> TRUE, g |-> checkGameOver(nextTurnPhase(g3))]

\* [ok, g]; ok is FALSE when the call throws (the promise is rejected)
drawCard(g, playerId, fromDiscard, drawCount) ==
  IF g.currentTurnPhase # "drawPhase" THEN [ok |-> FALSE, g |-> g]
  ELSE IF ~validateAction(g, playerId, "draw", drawCount)
  THEN [ok |-> FALSE, g |-> g]
  ELSE IF playerId \notin Players THEN [ok |-> FALSE, g |-> g]
  ELSE
    LET viaDiscard == fromDiscard /\ drawCount # Undefined /\ drawCount # 0
                      /\ drawCount > 0
        taken == takeCards(g.discardPile, drawCount)
        drawn == draw(g.deck, 1)
        drawnCards == IF viaDiscard THEN taken.taken ELSE drawn.drawn
        g1 == IF viaDiscard
              THEN [g EXCEPT !.discardPile = taken.rest,
                             !.lastDrawFromDiscard = TRUE,
                             !.hand[playerId] = @ \o taken.taken]
              ELSE [g EXCEPT !.deck = drawn.rest,
                             !.lastDrawFromDiscard = FALSE,
                             !.hand[playerId] = @ \o drawn.drawn]
        g2 == recordAction(g1, "draw", Len(drawnCards))
        g3 == [g2 EXCEPT !.lastAction =
                            [type |-> "draw", playerId |-> playerId]]
    IN IF viaDiscard /\ (drawCount < 1 \/ drawCount > 3)
       THEN [ok |-> FALSE, g |-> g]
       ELSE IF viaDiscard /\ Len(g.discardPile) < drawCount
       THEN [ok |-> FALSE, g |-> g]
       ELSE IF viaDiscard /\ drawCount > 1
               /\ ~isValidMeld(getLastCards(g.discardPile, drawCount)).valid
       THEN [ok |-> FALSE, g |-> g]
       ELSE [ok |-> TRUE, g |-> checkGameOver(nextTurnPhase(g3))]

\* the error drawCard throws, "none" when it throws none
drawCardError(g, playerId, fromDiscard, drawCount) ==
  LET viaDiscard == fromDiscard /\ drawCount # Undefined /\ drawCount # 0
                    /\ drawCount > 0
  IN IF g.currentTurnPhase # "drawPhase" THEN "phase"
     ELSE IF ~validateAction(g, playerId, "draw", drawCount) THEN "validation"
     ELSE IF playerId \notin Players THEN "playerNotFound"
     ELSE IF viaDiscard /\ (drawCount < 1 \/ drawCount > 3) THEN "count"
     ELSE IF viaDiscard /\ Len(g.discardPile) < drawCount THEN "notEnough"
     ELSE IF viaDiscard /\ drawCount > 1
             /\ ~isValidMeld(getLastCards(g.discardPile, drawCount)).valid
     THEN "meld"
     ELSE "none"


\* discardCard without the turn-phase check
discardCard_NoPhaseCheck(g, playerId, cardId) ==
  IF playerId \notin Players THEN [ok |-> FALSE, g |-> g]
  ELSE
    LET isFirstPlayerWithEightCards ==
          Len(g.hand[playerId]) = FirstHandSize /\ ~g.firstPlayerDiscarded
        card == g.hand[playerId][findIndex(g.hand[playerId], cardId)]
        g1 == [g EXCEPT !.hand[playerId] = removeCard(@, cardId),
                        !.discardPile = Append(@, card)]
        g2 == IF isFirstPlayerWithEightCards
              THEN [g1 EXCEPT !.firstPlayerDiscarded = TRUE] ELSE g1
        g3 == IF canWin(g2, playerId)
              THEN [g2 EXCEPT !.winner = playerId,
                              !.gameOverReason = "memukul",
                              !.status = "finished",
                              !.score[playerId] =
                                 @ + calculateWinningScore(card)]
              ELSE g2
        g4 == recordAction(g3, "discard", Undefined)
        g5 == [g4 EXCEPT !.lastAction =
                            [type |-> "discard", playerId |-> playerId]]
        g6 == IF g5.status = "finished" THEN g5
              ELSE IF isFirstPlayerWithEightCards
              THEN [g5 EXCEPT !.currentTurnPhase = "drawPhase"]
              ELSE startNewTurn(nextTurn(g5))
    IN IF ~validateAction(g, playerId, "discard", cardId)
       THEN [ok |-> FALSE, g |-> g]
       ELSE IF findIndex(g.hand[playerId], cardId) = 0
       THEN [ok |-> FALSE, g |-> g]
       ELSE [ok |-> TRUE, g |-> checkGameOver(g6)]

\* discardCard passing the turn after the first discard of the 8-card hand too
discardCard_FirstDiscardPassesTurn(g, playerId, cardId) ==
  IF playerId \notin Players THEN [ok |-> FALSE, g |-> g]
  ELSE
    LET isFirstPlayerWithEightCards ==
          Len(g.hand[playerId]) = FirstHandSize /\ ~g.firstPlayerDiscarded
        card == g.hand[playerId][findIndex(g.hand[playerId], cardId)]
        g1 == [g EXCEPT !.hand[playerId] = removeCard(@, cardId),
                        !.discardPile = Append(@, card)]
        g2 == IF isFirstPlayerWithEightCards
              THEN [g1 EXCEPT !.firstPlayerDiscarded = TRUE] ELSE g1
        g3 == IF canWin(g2, playerId)
              THEN [g2 EXCEPT !.winner = playerId,
                              !.gameOverReason = "memukul",
                              !.status = "finished",
                              !.score[playerId] =
                                 @ + calculateWinningScore(card)]
              ELSE g2
        g4 == recordAction(g3, "discard", Undefined)
        g5 == [g4 EXCEPT !.lastAction =
                            [type |-> "discard", playerId |-> playerId]]
        g6 == IF g5.status = "finished" THEN g5
              ELSE startNewTurn(nextTurn(g5))
    IN IF ~isFirstPlayerWithEightCards /\ g.currentTurnPhase # "discardPhase"
       THEN [ok |-> FALSE, g |-> g]
       ELSE IF ~validateAction(g, playerId, "discard", cardId)
       THEN [ok |-> FALSE, g |-> g]
       ELSE IF findIndex(g.hand[playerId], cardId) = 0
       THEN [ok |-> FALSE, g |-> g]
       ELSE [ok |-> TRUE, g |-> checkGameOver(g6)]

discardCard(g, playerId, cardId) ==
  IF playerId \notin Players THEN [ok |-> FALSE, g |-> g]
  ELSE
    LET isFirstPlayerWithEightCards ==
          Len(g.hand[playerId]) = FirstHandSize /\ ~g.firstPlayerDiscarded
        card == g.hand[playerId][findIndex(g.hand[playerId], cardId)]
        g1 == [g EXCEPT !.hand[playerId] = removeCard(@, cardId),
                        !.discardPile = Append(@, card)]
        g2 == IF isFirstPlayerWithEightCards
              THEN [g1 EXCEPT !.firstPlayerDiscarded = TRUE] ELSE g1
        g3 == IF canWin(g2, playerId)
              THEN [g2 EXCEPT !.winner = playerId,
                              !.gameOverReason = "memukul",
                              !.status = "finished",
                              !.score[playerId] =
                                 @ + calculateWinningScore(card)]
              ELSE g2
        g4 == recordAction(g3, "discard", Undefined)
        g5 == [g4 EXCEPT !.lastAction =
                            [type |-> "discard", playerId |-> playerId]]
        g6 == IF g5.status = "finished" THEN g5
              ELSE IF isFirstPlayerWithEightCards
              THEN [g5 EXCEPT !.currentTurnPhase = "drawPhase"]
              ELSE startNewTurn(nextTurn(g5))
    IN IF ~isFirstPlayerWithEightCards /\ g.currentTurnPhase # "discardPhase"
       THEN [ok |-> FALSE, g |-> g]
       ELSE IF ~validateAction(g, playerId, "discard", cardId)
       THEN [ok |-> FALSE, g |-> g]
       ELSE IF findIndex(g.hand[playerId], cardId) = 0
       THEN [ok |-> FALSE, g |-> g]
       ELSE [ok |-> TRUE, g |-> checkGameOver(g6)]

\* cardIds.map(id => player.getHand().find(c => c.id === id)).filter(Boolean)
RECURSIVE findCards(_, _)
findCards(h, cardIds) ==
  IF cardIds = <<>> THEN <<>>
  ELSE LET i == findIndex(h, Head(cardIds))
       IN (IF i = 0 THEN <<>> ELSE <<h[i]>>) \o findCards(h, Tail(cardIds))

\* createMeld without the turn-phase check
createMeldBegin_NoPhaseCheck(g, playerId, cardIds) ==
  IF playerId \notin Players
  THEN [ok |-> FALSE, suspended |-> FALSE, g |-> g, meld |-> <<>>]
  ELSE
    LET meldCards == findCards(g.hand[playerId], cardIds)
        g1 == [g EXCEPT !.hand[playerId] = removeCards(@, cardIds)]
        meldValidation == isValidMeld(meldCards)
    IN IF ~validateAction(g, playerId, "meld", meldCards)
       THEN [ok |-> FALSE, suspended |-> FALSE, g |-> g, meld |-> <<>>]
       ELSE IF ~meldValidation.valid
       THEN [ok |-> FALSE, suspended |-> FALSE, g |-> g1, meld |-> <<>>]
       ELSE [ok |-> TRUE, suspended |-> TRUE, g |-> g1,
             meld |-> [type |-> meldValidation.type, cards |-> meldCards,
                       playerId |-> playerId]]

\* createMeld up to `await import('./Card')`: [ok, suspended, g, meld].
\* ok = FALSE: the call threw; suspended = TRUE: it waits at the await with
\* the meld it is going to add.
createMeldBegin(g, playerId, cardIds) ==
  IF g.currentTurnPhase # "meldPhase"
  THEN [ok |-> FALSE, suspended |-> FALSE, g |-> g, meld |-> <<>>]
  ELSE IF playerId \notin Players
  THEN [ok |-> FALSE, suspended |-> FALSE, g |-> g, meld |-> <<>>]
  ELSE
    LET meldCards == findCards(g.hand[playerId], cardIds)
        g1 == [g EXCEPT !.hand[playerId] = removeCards(@, cardIds)]
        meldValidation == isValidMeld(meldCards)
    IN IF ~validateAction(g, playerId, "meld", meldCards)
       THEN [ok |-> FALSE, suspended |-> FALSE, g |-> g, meld |-> <<>>]
       ELSE IF ~meldValidation.valid
       THEN [ok |-> FALSE, suspended |-> FALSE, g |-> g1, meld |-> <<>>]
       ELSE [ok |-> TRUE, suspended |-> TRUE, g |-> g1,
             meld |-> [type |-> meldValidation.type, cards |-> meldCards,
                       playerId |-> playerId]]

\* createMeld after the await: add the meld, record, check game over
createMeldResume(g, meld) ==
  LET g1 == addMeld(g, meld.playerId, meld)
      g2 == recordAction(g1, "meld", Undefined)
      g3 == [g2 EXCEPT !.lastAction =
                          [type |-> "meld", playerId |-> meld.playerId]]
  IN checkGameOver(g3)

(***************************************************************************)
(* Construction                                                            *)
(***************************************************************************)
\* new Game(playerIds, displayNames) with four player ids
newGame ==
  [status |-> "lobby", deck |-> CanonicalDeck, discardPile |-> <<>>,
   hand |-> [p \in Players |-> <<>>], melds |-> [p \in Players |-> <<>>],
   score |-> [p \in Players |-> 0], hasLaidRun |-> [p \in Players |-> FALSE],
   currentPlayerIndex |-> 0, direction |-> 1,
   currentTurnPhase |-> "drawPhase",
   firstPlayerDiscarded |-> FALSE, lastDrawFromDiscard |-> FALSE,
   winner |-> Undefined, gameOverReason |-> "none",
   jokerReferenceCard |-> Undefined,
   lastAction |-> [type |-> "none", playerId |-> Undefined]]

InitOf(g) ==
  /\ status = g.status
  /\ deck = g.deck
  /\ discardPile = g.discardPile
  /\ hand = g.hand
  /\ melds = g.melds
  /\ score = g.score
  /\ hasLaidRun = g.hasLaidRun
  /\ currentPlayerIndex = g.currentPlayerIndex
  /\ direction = g.direction
  /\ currentTurnPhase = g.currentTurnPhase
  /\ firstPlayerDiscarded = g.firstPlayerDiscarded
  /\ lastDrawFromDiscard = g.lastDrawFromDiscard
  /\ winner = g.winner
  /\ gameOverReason = g.gameOverReason
  /\ jokerReferenceCard = g.jokerReferenceCard
  /\ lastAction = g.lastAction

\* no static function is being probed.  A probe is the input (cards, count
\* or game, by its kind), the function applied to it and what it returned:
\* valid and type for the validators, valid and made for the constructor,
\* scores for calculateRoundScores, valid (no error), drawn and rest for
\* Deck.draw
NoProbe ==
  [kind |-> "none", fn |-> "none", cards |-> <<>>, count |-> 0,
   game |-> newGame, valid |-> FALSE, type |-> "none", made |-> <<>>,
   scores |-> [p \in Players |-> 0], drawn |-> <<>>, rest |-> <<>>]

InitNew ==
  /\ InitOf(newGame)
  /\ pendingMelds = <<>>
  /\ lastCall = [op |-> "new", own |-> TRUE, ok |-> TRUE]
  /\ origin = "new"
  /\ probe = NoProbe

(***************************************************************************)
(* Snapshot export and import                                              *)
(***************************************************************************)
serializeCard(c) ==
  [id |-> CardId(c), suit |-> Suit(c), rank |-> Rank(c), value |-> value(c),
   isJoker |-> isJoker(c)]

\* new Card(cardData.suit, cardData.rank, cardData.isJoker)
deserializeCard(cardData) ==
  cardData.suit * NumRanks + cardData.rank
  + (IF cardData.isJoker THEN DeckSize ELSE 0)

serializeCards(cs) == [i \in 1..Len(cs) |-> serializeCard(cs[i])]
deserializeCards(ds) == [i \in 1..Len(ds) |-> deserializeCard(ds[i])]

serializeMeld(m) ==
  [type |-> m.type, cards |-> serializeCards(m.cards), playerId |-> m.playerId]
deserializeMeld(md) ==
  [type |-> md.type, cards |-> deserializeCards(md.cards),
   playerId |-> md.playerId]

getData(g) ==
  [status |-> g.status,
   players |-> [p \in Players |->
                  [hand |-> serializeCards(g.hand[p]),
                   melds |-> [i \in 1..Len(g.melds[p]) |->
                                serializeMeld(g.melds[p][i])],
                   score |-> g.score[p],
                   hasLaidRun |-> g.hasLaidRun[p]]],
   deck |-> serializeCards(g.deck),
   discardPile |-> serializeCards(g.discardPile),
   \* an optional field: <<>> when undefined, else the one record
   jokerReferenceCard |-> IF g.jokerReferenceCard = Undefined THEN <<>>
                          ELSE <<serializeCard(g.jokerReferenceCard)>>,
   currentPlayerIndex |-> g.currentPlayerIndex,
   currentTurnPhase |-> g.currentTurnPhase,
   winner |-> g.winner, gameOverReason |-> g.gameOverReason,
   lastAction |-> g.lastAction,
   firstPlayerDiscarded |-> g.firstPlayerDiscarded,
   lastDrawFromDiscard |-> g.lastDrawFromDiscard,
   direction |-> g.direction]

fromData(data) ==
  [status |-> data.status,
   \* game.deck = new Deck() holds the 52 cards of the constructor, addCards
   \* pushes the cards of the snapshot after them
   deck |-> CanonicalDeck \o deserializeCards(data.deck),
   discardPile |-> deserializeCards(data.discardPile),
   hand |-> [p \in Players |-> deserializeCards(data.players[p].hand)],
   melds |-> [p \in Players |->
                [i \in 1..Len(data.players[p].melds) |->
                   deserializeMeld(data.players[p].melds[i])]],
   score |-> [p \in Players |-> data.players[p].score],
   hasLaidRun |-> [p \in Players |-> data.players[p].hasLaidRun],
   \* new TurnManager(players, data.currentPlayerIndex): direction is 1
   currentPlayerIndex |-> data.currentPlayerIndex, direction |-> 1,
   currentTurnPhase |-> data.currentTurnPhase,
   firstPlayerDiscarded |-> data.firstPlayerDiscarded,
   lastDrawFromDiscard |-> data.lastDrawFromDiscard,
   winner |-> data.winner, gameOverReason |-> data.gameOverReason,
   jokerReferenceCard |-> IF data.jokerReferenceCard = <<>>
                          THEN Undefined
                          ELSE deserializeCard(data.jokerReferenceCard[1]),
   lastAction |-> data.lastAction]

(***************************************************************************)
(* The snapshots a Game is imported from: rounds in progress, as getData   *)
(* exports them.  The current player holds a run of cards of DataBase, the *)
(* other players two cards each.                                           *)
(***************************************************************************)
\* K♥ 9♥ 9♦ 9♣ A♥ A♦ A♣ A♠
DataBase == <<12, 8, 21, 34, 0, 13, 26, 39>>
DataHands ==
  {SubSeq(DataBase, 1, n) : n \in 1..MaxDataHand}
  \cup {SubSeq(DataBase, Len(DataBase) - n + 1, Len(DataBase)) :
          n \in 1..MaxDataHand}
\* 2♠ .. 5♠ and 2♣ .. 5♣
OtherHand(q) == <<40 + q, 27 + q>>
\* a declared run (the four aces) and a declared set (three fives)
DataRun(p) == [type |-> "run", cards |-> <<0, 13, 26, 39>>, playerId |-> p]
DataSetMeld(p) == [type |-> "set", cards |-> <<4, 17, 30>>, playerId |-> p]
DataMelds(p) == << <<>>, <<DataRun(p)>>, <<DataRun(p), DataSetMeld(p)>> >>

DataGames ==
  {[status |-> "playing",
    deck |-> <<15, 16, 17>>,
    discardPile |-> <<5, 6>>,
    hand |-> [q \in Players |-> IF q = p THEN h ELSE OtherHand(q)],
    melds |-> [q \in Players |-> IF q = p THEN DataMelds(p)[m] ELSE <<>>],
    score |-> [q \in Players |-> 10 * q],
    hasLaidRun |-> [q \in Players |-> q = p /\ m > 1],
    currentPlayerIndex |-> p, direction |-> 1,
    currentTurnPhase |-> phase,
    firstPlayerDiscarded |-> TRUE, lastDrawFromDiscard |-> ldd,
    winner |-> Undefined, gameOverReason |-> "none",
    jokerReferenceCard |-> 45,
    lastAction |-> [type |-> "draw", playerId |-> p]] :
     p \in Players, h \in DataHands, m \in 1..3,
     phase \in {"drawPhase", "meldPhase", "discardPhase"}, ldd \in BOOLEAN}

\* discard piles whose top matches the hand K♥ 9♥ by rank: 6♥ 9♠ (one
\* matching card), 9♣ 9♠ (two), and 9♠ 6♥ (none at the top)
MatchingPiles == {<<5, 47>>, <<34, 47>>, <<47, 5>>}
\* rounds in drawPhase, the current player holding K♥ 9♥ and no meld, with
\* those discard piles
DataGamesDraw ==
  {[g EXCEPT !.discardPile = pile] :
     g \in {d \in DataGames :
              /\ d.currentTurnPhase = "drawPhase"
              /\ ~d.lastDrawFromDiscard
              /\ d.hand[d.currentPlayerIndex] = SubSeq(DataBase, 1, 2)
              /\ d.melds[d.currentPlayerIndex] = <<>>},
     pile \in MatchingPiles}

GameDataSet == {getData(g) : g \in DataGames \cup DataGamesDraw}

\* Game.fromData(data)
InitData ==
  /\ \E data \in GameDataSet : InitOf(fromData(data))
  /\ pendingMelds = <<>>
  /\ lastCall = [op |-> "fromData", own |-> TRUE, ok |-> TRUE]
  /\ origin = "fromData"
  /\ probe = NoProbe

\* a Game is made by its constructor or by Game.fromData
Init == InitNew \/ InitData

(***************************************************************************)
(* The arguments the callers try                                           *)
(***************************************************************************)
Seeds == 0..MaxSeed
DeterminerIndexes == {((17 * k) % DeckSize) + 1 : k \in 0..MaxDeterminer}
DrawCounts == {Undefined} \cup (0..MaxDrawCount)
CardIds == 0..(DeckSize - 1)

handOf(p) == IF p \in Players THEN hand[p] ELSE <<>>
HandIds(p) == {CardId(handOf(p)[i]) : i \in 1..Len(handOf(p))}
\* a card id that is not in the hand of p
AbsentId(p) == CHOOSE id \in CardIds : id \notin HandIds(p)
DiscardArgs(p) == HandIds(p) \cup {AbsentId(p), Undefined}

RECURSIVE SeqOfSet(_)
SeqOfSet(S) ==
  IF S = {} THEN <<>>
  ELSE LET m == CHOOSE x \in S : \A y \in S : x <= y
       IN <<m>> \o SeqOfSet(S \ {m})

\* up to four of the first MaxPick positions of the hand of p
Picks(p) ==
  {S \in SUBSET (1..Min(Len(handOf(p)), MaxPick)) : Cardinality(S) \in 1..4}
\* the card ids at the positions S of the hand of p, in hand order
IdsAt(p, S) ==
  [i \in 1..Cardinality(S) |-> CardId(handOf(p)[SeqOfSet(S)[i]])]

\* the ids at up to four of the first MaxPick positions of the hand, in hand
\* order; three ids with the first one repeated; three or four ids followed
\* by an id that is not in the hand; no id at all
MeldArgs(p) ==
  LET picks == Picks(p)
      ids(S) == IdsAt(p, S)
  IN {ids(S) : S \in picks}
     \cup {<<ids(S)[1]>> \o ids(S) : S \in {T \in picks : Cardinality(T) = 3}}
     \cup {Append(ids(S), AbsentId(p)) :
             S \in {T \in picks : Cardinality(T) >= 3}}
     \cup {<<>>}

(***************************************************************************)
(* Actions: one call of a method of Game each                              *)
(***************************************************************************)
\* lastCall records the method called last, whether the caller was the
\* current player when calling (own), and whether the call was accepted (ok)
Called(op, own, ok) ==
  /\ lastCall' = [op |-> op, own |-> own, ok |-> ok]
  /\ UNCHANGED <<origin, probe>>

Start ==
  \/ /\ status # "lobby"
     /\ UNCHANGED <<gameVars, pendingMelds>>
     /\ Called("start", TRUE, FALSE)
  \/ /\ status = "lobby"
     /\ \E seed1 \in Seeds, randomIndex \in DeterminerIndexes,
           seed2 \in Seeds, firstPlayerIndex \in Players :
          LET r == start(Game, seed1, randomIndex, seed2, firstPlayerIndex)
          IN /\ Install(r.g)
             /\ Called("start", TRUE, r.ok)
             /\ UNCHANGED pendingMelds

DrawCard ==
  \E playerId \in PlayerIds, fromDiscard \in BOOLEAN, drawCount \in DrawCounts :
    LET r == drawCard(Game, playerId, fromDiscard, drawCount)
    IN /\ Install(r.g)
       /\ Called("drawCard", playerId = currentPlayerIndex, r.ok)
       /\ UNCHANGED pendingMelds

DiscardCard ==
  \E playerId \in PlayerIds :
    \E cardId \in DiscardArgs(playerId) :
      LET r == discardCard(Game, playerId, cardId)
      IN /\ Install(r.g)
         /\ Called("discardCard", playerId = currentPlayerIndex, r.ok)
         /\ UNCHANGED pendingMelds

\* the synchronous part of createMeld: it throws, or it suspends at the await
CreateMeld ==
  /\ Len(pendingMelds) < MaxPending
  /\ \E playerId \in PlayerIds :
       \E cardIds \in MeldArgs(playerId) :
         LET r == createMeldBegin(Game, playerId, cardIds)
         IN /\ Install(r.g)
            /\ IF r.suspended
               THEN /\ pendingMelds' = Append(pendingMelds, r.meld)
                    /\ Called("createMeld", playerId = currentPlayerIndex,
                              TRUE)
               ELSE /\ UNCHANGED pendingMelds
                    /\ Called("createMeld", playerId = currentPlayerIndex,
                              FALSE)

\* the import has resolved: the oldest suspended createMeld runs to its end
CreateMeldResume ==
  /\ pendingMelds # <<>>
  /\ Install(createMeldResume(Game, Head(pendingMelds)))
  /\ pendingMelds' = Tail(pendingMelds)
  /\ Called("createMeldResume", TRUE, TRUE)

SkipMeldPhase ==
  /\ Install(skipMeldPhase(Game))
  /\ Called("skipMeldPhase", TRUE, TRUE)
  /\ UNCHANGED pendingMelds

Next ==
  \/ Start
  \/ DrawCard
  \/ DiscardCard
  \/ CreateMeld
  \/ CreateMeldResume
  \/ SkipMeldPhase

Spec == Init /\ [][Next]_vars

(***************************************************************************)
(* The static functions of the engine, applied to inputs outside a game:   *)
(* GameValidator.isValidRun / isValidSet / isValidMeld on card groups, the  *)
(* Game constructor on a number of player ids, and                         *)
(* ScoreManager.calculateRoundScores on imported games.                    *)
(***************************************************************************)
\* card groups are made of the first MaxProbeCards cards of ProbeDeck
MaxProbeCards == 13
\* longest hand of a game whose round scores are computed
MaxProbeHand == 2
\* largest number of player ids given to the constructor
MaxPlayerCount == 6

\* A♥ A♦ A♣ A♠ 5♠ 6♠ joker(7♠) 8♠ 7♠ J♣ Q♣ K♣ 9♥ 9♦
ProbeDeck == <<0, 13, 26, 39, 43, 44, 97, 46, 45, 36, 37, 38, 8, 21>>
ProbeCards == {ProbeDeck[i] : i \in 1..Min(MaxProbeCards, Len(ProbeDeck))}
\* the groups of 2 to 4 cards in every order, a card possibly more than once
\* (the deck of a started game holds two copies of each card), and two groups
\* of 5 cards
CardGroups ==
  UNION {[1..n -> ProbeCards] : n \in 2..4}
  \cup {<<0, 13, 26, 39, 97>>, <<43, 44, 97, 46, 45>>}

\* largest count given to Deck.draw
MaxProbeDraw == 5
\* the decks Deck.draw is applied to: the first cards of ProbeDeck
ProbeDecks ==
  {SubSeq(ProbeDeck, 1, n) : n \in 0..Min(MaxProbeCards, Len(ProbeDeck))}

\* K♥ 9♥ A♥ joker(5♥) joker(9♦)
ScoreCards == {12, 8, 0, 56, 73}
ScoreHands == UNION {[1..n -> ScoreCards] : n \in 0..MaxProbeHand}
\* imported games in which player p holds the hand h and the melds of
\* DataMelds(p)[m]; the three fives of DataSetMeld have the id of joker(5♥)
ScoreGames ==
  {fromData(getData(
     [newGame EXCEPT
        !.status = "playing",
        !.hand = [q \in Players |-> IF q = p THEN h ELSE OtherHand(q)],
        !.melds = [q \in Players |->
                     IF q = p THEN DataMelds(p)[m] ELSE <<>>],
        !.hasLaidRun = [q \in Players |-> q = p /\ m > 1]])) :
     p \in Players, h \in ScoreHands, m \in 1..3}

\* new Game(playerIds, displayNames) with playerCount ids: ok is FALSE when
\* the constructor throws; g holds the game made, if any
construct(playerCount) ==
  IF ~validateGameStart(playerCount) THEN [ok |-> FALSE, g |-> <<>>]
  ELSE [ok |-> TRUE, g |-> <<newGame>>]

ProbeInputs ==
  {[NoProbe EXCEPT !.kind = "cards", !.cards = g] : g \in CardGroups}
  \cup {[NoProbe EXCEPT !.kind = "count", !.count = n] :
          n \in 0..MaxPlayerCount}
  \cup {[NoProbe EXCEPT !.kind = "game", !.game = g] : g \in ScoreGames}
  \cup {[NoProbe EXCEPT !.kind = "deck", !.cards = d, !.count = n] :
          d \in ProbeDecks, n \in 0..MaxProbeDraw}

InitProbe ==
  /\ InitOf(newGame)
  /\ pendingMelds = <<>>
  /\ lastCall = [op |-> "new", own |-> TRUE, ok |-> TRUE]
  /\ origin = "new"
  /\ probe \in ProbeInputs

ProbeIsValidRun ==
  /\ probe.kind = "cards"
  /\ probe' = [probe EXCEPT !.fn = "isValidRun",
                            !.valid = isValidRun(probe.cards),
                            !.type = "none"]
  /\ UNCHANGED <<gameVars, pendingMelds, lastCall, origin>>

ProbeIsValidSet ==
  /\ probe.kind = "cards"
  /\ probe' = [probe EXCEPT !.fn = "isValidSet",
                            !.valid = isValidSet(probe.cards),
                            !.type = "none"]
  /\ UNCHANGED <<gameVars, pendingMelds, lastCall, origin>>

ProbeIsValidMeld ==
  /\ probe.kind = "cards"
  /\ probe' = [probe EXCEPT !.fn = "isValidMeld",
                            !.valid = isValidMeld(probe.cards).valid,
                            !.type = isValidMeld(probe.cards).type]
  /\ UNCHANGED <<gameVars, pendingMelds, lastCall, origin>>

ProbeConstruct ==
  /\ probe.kind = "count"
  /\ probe' = [probe EXCEPT !.fn = "construct",
                            !.valid = construct(probe.count).ok,
                            !.made = construct(probe.count).g]
  /\ UNCHANGED <<gameVars, pendingMelds, lastCall, origin>>

ProbeRoundScores ==
  /\ probe.kind = "game"
  /\ probe' = [probe EXCEPT !.fn = "calculateRoundScores",
                            !.scores = calculateRoundScores(probe.game)]
  /\ UNCHANGED <<gameVars, pendingMelds, lastCall, origin>>

\* Deck.draw(count) on a deck holding probe.cards; splice throws nothing
ProbeDraw ==
  /\ probe.kind = "deck"
  /\ probe' = [probe EXCEPT !.fn = "draw",
                            !.valid = TRUE,
                            !.drawn = draw(probe.cards, probe.count).drawn,
                            !.rest = draw(probe.cards, probe.count).rest]
  /\ UNCHANGED <<gameVars, pendingMelds, lastCall, origin>>

NextProbe ==
  \/ ProbeIsValidRun
  \/ ProbeIsValidSet
  \/ ProbeIsValidMeld
  \/ ProbeConstruct
  \/ ProbeRoundScores
  \/ ProbeDraw

SpecProbe == InitProbe /\ [][NextProbe]_vars

(***************************************************************************)
(* Properties                                                              *)
(***************************************************************************)
CallOps == {"drawCard", "discardCard", "createMeld"}

\* every card in circulation: deck, discard pile, hands, declared melds
RECURSIVE concatOver(_, _)
concatOver(p, f) ==
  IF p >= NumPlayers THEN <<>> ELSE f[p] \o concatOver(p + 1, f)
Circulation ==
  deck \o discardPile \o concatOver(0, hand)
  \o concatOver(0, [p \in Players |-> meldCardsOf(melds[p])])

\* C1: in every state reached from start() the deck, the discard pile, the
\* hands and the declared melds hold exactly 51 cards together, and no card
\* id occurs twice among them.
C1_CardConservation ==
  (origin = "new" /\ status # "lobby") =>
    /\ Len(Circulation) = DeckSize - 1
    /\ \A i, j \in 1..Len(Circulation) :
         i # j => CardId(Circulation[i]) # CardId(Circulation[j])

\* C2: a rejected drawCard, discardCard or createMeld call leaves the whole
\* game state as it was.
C2_RejectedCallChangesNothing ==
  [][(lastCall'.op \in CallOps /\ ~lastCall'.ok) => UNCHANGED gameVars]_vars

\* the current player's createMeld got as far as the validator's rules and
\* was rejected there
C2_Witness ==
  /\ lastCall = [op |-> "createMeld", own |-> TRUE, ok |-> FALSE]
  /\ status = "playing"
  /\ currentTurnPhase = "meldPhase"
  /\ hasLaidRun[currentPlayerIndex]

\* C3: drawCard, discardCard and createMeld called with the id of a player
\* who is not the current player are rejected, whatever the phase and status.
C3_NotYourTurnRejected ==
  (lastCall.op \in CallOps /\ ~lastCall.own) => ~lastCall.ok

\* a player who is not the current one, holding 8 cards before any discard,
\* called discardCard and was rejected
C3_Witness ==
  /\ lastCall = [op |-> "discardCard", own |-> FALSE, ok |-> FALSE]
  /\ status = "playing"
  /\ ~firstPlayerDiscarded
  /\ \E p \in Players :
       p # currentPlayerIndex /\ Len(hand[p]) = FirstHandSize

\* C4: an accepted drawCard was called in drawPhase and an accepted
\* createMeld was called in meldPhase.
C4_PhaseOfAcceptedCall ==
  [][/\ (lastCall'.op = "drawCard" /\ lastCall'.ok)
          => currentTurnPhase = "drawPhase"
     /\ (lastCall'.op = "createMeld" /\ lastCall'.ok)
          => currentTurnPhase = "meldPhase"]_vars

\* a createMeld call was accepted
C4_Witness ==
  /\ lastCall = [op |-> "createMeld", own |-> TRUE, ok |-> TRUE]
  /\ pendingMelds # <<>>

\* C5: once status is finished it stays finished, and every drawCard,
\* discardCard or createMeld call made from then on is rejected and changes
\* no hand, no meld and no score.
C5_FinishedIsFinal ==
  [][status = "finished" =>
       /\ status' = "finished"
       /\ lastCall'.op \in CallOps =>
            ~lastCall'.ok /\ UNCHANGED <<hand, melds, score>>]_vars

\* the round was won in this run and the winner's next discardCard was
\* rejected
C5_Witness ==
  /\ status = "finished"
  /\ gameOverReason = "memukul"
  /\ lastCall = [op |-> "discardCard", own |-> TRUE, ok |-> FALSE]
  /\ currentTurnPhase = "discardPhase"

\* the cards of the hand of the current player at the positions S
CardsAt(S) == findCards(hand[currentPlayerIndex], IdsAt(currentPlayerIndex, S))

C6_WitnessRejected ==
  /\ status = "playing" /\ currentTurnPhase = "meldPhase"
  /\ ~hasLaidRun[currentPlayerIndex]
  /\ \E S \in Picks(currentPlayerIndex) :
       isValidSet(CardsAt(S)) /\ ~isValidRun(CardsAt(S))

\* C7: an accepted discardCard that leaves the discarding player with one
\* card in hand, a declared meld and hasLaidRun ends the round in that call:
\* finished, that player the winner, reason memukul, current player unchanged.
C7_MemukulEndsRound ==
  [][(/\ lastCall'.op = "discardCard" /\ lastCall'.ok
      /\ Len(hand'[currentPlayerIndex]) = 1
      /\ Len(melds'[currentPlayerIndex]) > 0
      /\ hasLaidRun'[currentPlayerIndex])
     => /\ status' = "finished"
        /\ winner' = currentPlayerIndex
        /\ gameOverReason' = "memukul"
        /\ currentPlayerIndex' = currentPlayerIndex]_vars

\* a discard was accepted and left the winner with one card
C7_Witness ==
  /\ lastCall = [op |-> "discardCard", own |-> TRUE, ok |-> TRUE]
  /\ status = "finished" /\ gameOverReason = "memukul"
  /\ winner = currentPlayerIndex
  /\ Len(hand[winner]) = 1

\* C8: when a discard ends the round by Memukul, the winner's score grows by
\* the last-card value of the one card left in the winner's hand.
C8_MemukulPaysRemainingCard ==
  [][(/\ lastCall'.op = "discardCard" /\ lastCall'.ok
      /\ status = "playing" /\ gameOverReason' = "memukul"
      /\ Len(hand'[currentPlayerIndex]) = 1)
     => score'[currentPlayerIndex]
          = score[currentPlayerIndex]
            + getWinningValue(hand'[currentPlayerIndex][1])]_vars

\* C9: when a call has completed with the deck at 0 cards and no player
\* having won, status is finished with reason deck_empty and no winner.
C9_DeckEmptyEndsRound ==
  (/\ Len(deck) = 0
   /\ lastCall.op \in {"drawCard", "discardCard", "createMeldResume"}
   /\ lastCall.ok
   /\ ~\E p \in Players : hasWon(Game, p) \/ canWin(Game, p))
  => /\ status = "finished"
     /\ gameOverReason = "deck_empty"
     /\ winner = Undefined

\* C10: after start() exactly one player holds 8 cards, the other three hold
\* 7 cards each, and firstPlayerDiscarded is false.
C10_Deal ==
  (lastCall.op = "start" /\ lastCall.ok) =>
    /\ \E p \in Players :
         /\ Len(hand[p]) = FirstHandSize
         /\ \A q \in Players \ {p} : Len(hand[q]) = HandSize
    /\ ~firstPlayerDiscarded

\* start() dealt the 8 cards to the last player
C10_Witness ==
  /\ lastCall.op = "start" /\ lastCall.ok
  /\ Len(hand[NumPlayers - 1]) = FirstHandSize

\* C11: right after start() the current player is the starting player, the
\* one who was dealt 8 cards, and the turn phase is discardPhase.
C11_StarterIsCurrent ==
  (lastCall.op = "start" /\ lastCall.ok) =>
    /\ Len(hand[currentPlayerIndex]) = FirstHandSize
    /\ currentTurnPhase = "discardPhase"

\* C12: a discardCard accepted while the turn phase is not discardPhase was
\* called by the player holding the 8 dealt cards before any discard of the
\* round; every other discardCard outside discardPhase is rejected.
C12_DiscardOutsidePhase ==
  [][(/\ lastCall'.op = "discardCard" /\ lastCall'.ok
      /\ currentTurnPhase # "discardPhase")
     => /\ lastCall'.own
        /\ Len(hand[currentPlayerIndex]) = FirstHandSize
        /\ ~firstPlayerDiscarded]_vars

\* right after the deal the current player, holding 7 cards in drawPhase,
\* called discardCard with a card of the own hand and was rejected
C12_Witness ==
  /\ lastCall = [op |-> "discardCard", own |-> TRUE, ok |-> FALSE]
  /\ origin = "new" /\ status = "playing"
  /\ currentTurnPhase = "drawPhase"
  /\ Len(hand[currentPlayerIndex]) = HandSize
  /\ ~firstPlayerDiscarded

C14_SkipOnlyAfterDeckDraw ==
  [][(/\ lastCall'.op = "skipMeldPhase"
      /\ currentTurnPhase = "meldPhase"
      /\ lastDrawFromDiscard)
     => /\ ~lastCall'.ok
        /\ currentTurnPhase' = "meldPhase"]_vars

\* C15: when the draw of the turn came from the discard pile, a createMeld
\* that was accepted and has run to its end moves the phase from meldPhase to
\* discardPhase.
C15_MandatoryMeldAdvances ==
  [][(/\ lastCall'.op = "createMeldResume"
      /\ status' = "playing"
      /\ currentTurnPhase = "meldPhase"
      /\ lastDrawFromDiscard)
     => currentTurnPhase' = "discardPhase"]_vars

\* C16: an accepted discardCard that does not end the round and is not the
\* mandatory first discard of the player holding 8 cards passes the turn to
\* player (currentPlayerIndex + 1) mod 4, sets the phase to drawPhase and
\* leaves lastDrawFromDiscard false; no step changes the turn direction.
C16_DiscardPassesTurn ==
  [][/\ (/\ lastCall'.op = "discardCard" /\ lastCall'.ok
         /\ status' = "playing"
         /\ ~(Len(hand[currentPlayerIndex]) = FirstHandSize
              /\ ~firstPlayerDiscarded))
        => /\ currentPlayerIndex' = (currentPlayerIndex + 1) % NumPlayers
           /\ currentTurnPhase' = "drawPhase"
           /\ ~lastDrawFromDiscard'
     /\ direction' = direction
     /\ direction = 1]_vars

\* the last player discarded, the round goes on and the turn is with player 0
C16_Witness ==
  /\ lastCall = [op |-> "discardCard", own |-> TRUE, ok |-> TRUE]
  /\ status = "playing"
  /\ lastAction = [type |-> "discard", playerId |-> NumPlayers - 1]
  /\ currentPlayerIndex = 0
  /\ currentTurnPhase = "drawPhase"

\* C17: in every reachable state the game imported from the exported
\* snapshot, Game.fromData(g.getData()), equals g: same deck, discard pile,
\* hands, melds, scores, current player, turn phase, status and flags.
C17_SnapshotRoundTrip ==
  fromData(getData(Game)) = Game

\* C18: createMeld(playerId, cardIds) is rejected and moves nothing whenever
\* one of the ids of cardIds is not the id of a card in the hand of playerId.
C18_MeldOfForeignCardRejected ==
  \A playerId \in Players :
    \A cardIds \in MeldArgs(playerId) :
      (\E i \in 1..Len(cardIds) : ~hasCard(hand[playerId], cardIds[i])) =>
        /\ ~createMeldBegin(Game, playerId, cardIds).ok
        /\ createMeldBegin(Game, playerId, cardIds).g = Game

\* C19: a drawCard from the deck by the current player in drawPhase, with
\* status playing, a non-empty deck and no card on the discard pile matching
\* the player's hand, is accepted: the top card of the deck moves into the
\* hand of that player, the phase becomes meldPhase and lastDrawFromDiscard
\* is false.
C19_DeckDrawAccepted ==
  (/\ status = "playing" /\ currentTurnPhase = "drawPhase"
   /\ Len(deck) > 0
   /\ getMatchingCardsSequence(hand[currentPlayerIndex], discardPile) = <<>>)
  => LET r == drawCard(Game, currentPlayerIndex, FALSE, Undefined)
     IN /\ r.ok
        /\ r.g.deck = Tail(deck)
        /\ r.g.hand[currentPlayerIndex]
             = Append(hand[currentPlayerIndex], Head(deck))
        /\ r.g.currentTurnPhase = "meldPhase"
        /\ ~r.g.lastDrawFromDiscard

\* C20: after start() exactly 3 of the cards in the deck, the hands, the
\* discard pile and the melds have isJoker = true, and each of them has the
\* rank of the joker reference card.
C20_ThreeJokers ==
  (origin = "new" /\ status # "lobby") =>
    LET jokers == {i \in 1..Len(Circulation) : isJoker(Circulation[i])}
    IN /\ Cardinality(jokers) = 3
       /\ \A i \in jokers :
            Rank(Circulation[i]) = Rank(jokerReferenceCard)

\* the ranks of the non-joker cards of a group
NonJokerRanks(cards) ==
  {Rank(cards[i]) : i \in {j \in 1..Len(cards) : ~isJoker(cards[j])}}
\* 3 or 4 cards whose non-joker cards share one suit and have different
\* ranks that fit, with the jokers in the gaps, in Len(cards) consecutive ranks
RunShape(cards) ==
  LET nj == {i \in 1..Len(cards) : ~isJoker(cards[i])}
  IN /\ Len(cards) \in {3, 4}
     /\ \A i, j \in nj : Suit(cards[i]) = Suit(cards[j])
     /\ \A i, j \in nj : i # j => Rank(cards[i]) # Rank(cards[j])
     /\ \A r1, r2 \in NonJokerRanks(cards) : r1 - r2 <= Len(cards) - 1

\* C21: isValidRun accepts every group of 3 or 4 cards whose non-joker cards
\* share one suit and whose ranks are consecutive once the jokers fill the
\* gaps, such as 5♠ 6♠ 7♠, J♣ Q♣ K♣ and 5♠ 6♠ joker 8♠.
C21_RunsAccepted ==
  (probe.fn = "isValidRun" /\ RunShape(probe.cards)) => probe.valid

C21_Witness ==
  /\ probe.fn = "isValidRun"
  /\ probe.cards = <<43, 44, 45>>
  /\ ~probe.valid

\* 3 or 4 cards, at least one of them not a joker, whose non-joker cards all
\* have one rank and pairwise different suits
SetShape(cards) ==
  LET nj == {i \in 1..Len(cards) : ~isJoker(cards[i])}
  IN /\ Len(cards) \in {3, 4}
     /\ nj # {}
     /\ \A i, j \in nj : Rank(cards[i]) = Rank(cards[j])
     /\ \A i, j \in nj : i # j => Suit(cards[i]) # Suit(cards[j])

\* C22: isValidSet returns true exactly for the groups of 3 or 4 cards with at
\* least one non-joker card, whose non-joker cards all share one rank and of
\* which no two non-joker cards share a suit.
C22_SetsExactly ==
  probe.fn = "isValidSet" => (probe.valid <=> SetShape(probe.cards))

\* a set completed by a joker is accepted
C22_Witness ==
  /\ probe.fn = "isValidSet"
  /\ probe.cards = <<0, 97, 13>>
  /\ probe.valid

\* a group with one suit twice is refused
C22_WitnessRefused ==
  /\ probe.fn = "isValidSet"
  /\ probe.cards = <<0, 13, 0>>
  /\ ~probe.valid

\* C23: isValidMeld classifies the four non-joker aces as a valid meld of type
\* run, not of type set.
C23_FourAcesAreARun ==
  ( /\ probe.fn = "isValidMeld"
    /\ Len(probe.cards) = 4
    /\ \A i \in 1..4 : ~isJoker(probe.cards[i]) /\ Rank(probe.cards[i]) = Ace
    /\ \A i, j \in 1..4 : i # j => Suit(probe.cards[i]) # Suit(probe.cards[j]) )
  => (probe.valid /\ probe.type = "run")

C23_Witness ==
  /\ probe.fn = "isValidMeld"
  /\ probe.cards = <<39, 0, 26, 13>>
  /\ probe.valid
  /\ probe.type = "run"

\* the score the deck-exhausted rule gives one card of a hand: 5 for the ranks
\* 2 to 10, 10 for J, Q and K, 15 for an ace; a joker counts 10 when a card
\* of the player's declared melds has its id, and -25 otherwise
ClaimCardScore(c, ms) ==
  IF isJoker(c)
  THEN IF \E i \in 1..Len(ms) : \E k \in 1..Len(ms[i].cards) :
            CardId(ms[i].cards[k]) = CardId(c)
       THEN 10 ELSE 0 - 25
  ELSE IF Rank(c) = Ace THEN 15
  ELSE IF Rank(c) \in {10, 11, 12} THEN 10
  ELSE 5

RECURSIVE ClaimHandScore(_, _)
ClaimHandScore(h, ms) ==
  IF h = <<>> THEN 0
  ELSE ClaimCardScore(Head(h), ms) + ClaimHandScore(Tail(h), ms)

ClaimMeldBonus(ms) ==
  10 * Len(ms) + 5 * Cardinality({i \in 1..Len(ms) : Len(ms[i].cards) = 4})

C24_WitnessUnmelded ==
  /\ probe.fn = "calculateRoundScores"
  /\ \E p \in Players :
       /\ probe.game.hand[p] = <<8, 73>>
       /\ probe.game.melds[p] = <<>>
       /\ probe.scores[p] = 0 - 20

\* C25: constructing a Game with a number of player ids other than 4 fails and
\* yields no game; with exactly 4 ids it succeeds with status lobby and four
\* players holding empty hands.
C25_FourPlayersOnly ==
  probe.fn = "construct" =>
    IF probe.count = 4
    THEN /\ probe.valid
         /\ Len(probe.made) = 1
         /\ probe.made[1].status = "lobby"
         /\ Cardinality(DOMAIN probe.made[1].hand) = 4
         /\ \A p \in DOMAIN probe.made[1].hand : probe.made[1].hand[p] = <<>>
    ELSE ~probe.valid /\ probe.made = <<>>

\* three ids are refused
C25_Witness ==
  /\ probe.fn = "construct"
  /\ probe.count = 3
  /\ ~probe.valid

\* four ids are accepted
C25_WitnessAccepted ==
  /\ probe.fn = "construct"
  /\ probe.count = 4
  /\ probe.valid

\* C26: win detection runs after every action, createMeld included: once a
\* createMeld call has completed and no call is in progress, a game with
\* status playing has no player holding exactly 1 card with at least one
\* declared meld and hasLaidRun.
C26_WinDetectedAfterMeld ==
  ( /\ lastCall.op = "createMeldResume"
    /\ pendingMelds = <<>>
    /\ status = "playing" )
  => \A p \in Players :
       ~(Len(hand[p]) = 1 /\ Len(melds[p]) > 0 /\ hasLaidRun[p])

\* C27: action methods run to completion: while a createMeld call is in
\* progress (its cards have left the hand, its meld is not yet added) the only
\* step taken is the completion of that call; no other call sees that state.
C27_CreateMeldNotInterleaved ==
  [][pendingMelds # <<>> => lastCall'.op = "createMeldResume"]_vars

\* C28: Deck.draw(n) with n greater than the number of remaining cards fails
\* with an error and removes nothing, and a draw that does not fail returns
\* n cards.
C28_DrawBeyondDeckFails ==
  probe.fn = "draw" =>
    /\ probe.count > Len(probe.cards) =>
         (~probe.valid /\ probe.rest = probe.cards /\ probe.drawn = <<>>)
    /\ probe.valid => Len(probe.drawn) = probe.count

\* how many times the card c occurs in the sequence s
Occurrences(s, c) == Cardinality({i \in 1..Len(s) : s[i] = c})

\* C29: once declared, a meld is never modified or removed: in every step
\* each declared meld keeps its place, owner, type and cards, and no card of
\* it gains an occurrence in the hands, the deck or the discard pile.
C29_MeldsArePermanent ==
  [][\/ UNCHANGED <<melds, deck, discardPile, hand>>
     \/ LET pool == deck \o discardPile \o concatOver(0, hand)
            poolNext == deck' \o discardPile' \o concatOver(0, hand')
        IN \A p \in Players :
             /\ Len(melds'[p]) >= Len(melds[p])
             /\ \A i \in 1..Len(melds[p]) :
                  /\ melds'[p][i] = melds[p][i]
                  /\ \A k \in 1..Len(melds[p][i].cards) :
                       Occurrences(poolNext, melds[p][i].cards[k])
                         <= Occurrences(pool, melds[p][i].cards[k])]_vars

\* a player who had declared melds has declared one more, and a discard has
\* been accepted since
C29_Witness ==
  /\ lastCall.op = "discardCard"
  /\ lastCall.ok
  /\ \E p \in Players : Len(melds[p]) >= 2 /\ melds[p][Len(melds[p])].type = "set"
                        /\ melds[p][Len(melds[p])].cards = <<8, 21, 34>>

\* C30: the round can always progress: no state with status playing of a game
\* built by the constructor has every drawCard, createMeld and discardCard
\* call rejected and skipMeldPhase without effect.
C30_SomeCallTakesEffect ==
  (origin = "new" /\ status = "playing" /\ pendingMelds = <<>>) =>
    \/ \E playerId \in PlayerIds, fromDiscard \in BOOLEAN,
          drawCount \in DrawCounts :
         drawCard(Game, playerId, fromDiscard, drawCount).ok
    \/ \E playerId \in PlayerIds : \E cardId \in DiscardArgs(playerId) :
         discardCard(Game, playerId, cardId).ok
    \/ \E playerId \in PlayerIds : \E cardIds \in MeldArgs(playerId) :
         createMeldBegin(Game, playerId, cardIds).ok
    \/ skipMeldPhase(Game) # Game

\* the state start() leaves when the starter is not player 0: player 0 is to
\* move, in drawPhase, with 7 cards
C30_StuckAfterStart ==
  /\ origin = "new"
  /\ lastCall.op = "start"
  /\ lastCall.ok
  /\ status = "playing"
  /\ currentPlayerIndex = 0
  /\ currentTurnPhase = "drawPhase"
  /\ Len(hand[0]) = HandSize

\* another call accepted while a createMeld call is in progress
C27_DiscardDuringMeld ==
  /\ pendingMelds # <<>>
  /\ lastCall.op = "discardCard"
  /\ lastCall.ok

\* the cards of a sequence, as a set
CardsOf(s) == {s[i] : i \in 1..Len(s)}

\* C31: an accepted createMeld(p, cardIds) removes exactly the cards named in
\* cardIds from the hand of p (as many cards as ids), adds one meld owned by p
\* holding exactly the removed cards, sets hasLaidRun if the meld is a run,
\* and leaves deck, discard pile, the other hands and melds, the scores and
\* the current player unchanged.
C31_MeldMovesNamedCards ==
  \A playerId \in Players :
    \A cardIds \in MeldArgs(playerId) :
      LET b == createMeldBegin(Game, playerId, cardIds)
      IN b.ok =>
           LET g2 == createMeldResume(b.g, b.meld)
               meld == g2.melds[playerId][Len(g2.melds[playerId])]
           IN /\ Len(g2.hand[playerId]) = Len(hand[playerId]) - Len(cardIds)
              /\ Len(g2.melds[playerId]) = Len(melds[playerId]) + 1
              /\ meld.playerId = playerId
              /\ Len(meld.cards) = Len(cardIds)
              /\ \A i \in 1..Len(cardIds) : CardId(meld.cards[i]) = cardIds[i]
              /\ \A c \in CardsOf(hand[playerId]) \cup CardsOf(meld.cards) :
                   Occurrences(hand[playerId], c)
                     = Occurrences(g2.hand[playerId], c)
                       + Occurrences(meld.cards, c)
              /\ g2.hasLaidRun[playerId]
                   = (hasLaidRun[playerId] \/ meld.type = "run")
              /\ g2.deck = deck
              /\ g2.discardPile = discardPile
              /\ \A q \in Players \ {playerId} :
                   /\ g2.hand[q] = hand[q]
                   /\ g2.melds[q] = melds[q]
                   /\ g2.hasLaidRun[q] = hasLaidRun[q]
              /\ g2.score = score
              /\ g2.currentPlayerIndex = currentPlayerIndex

\* C32: status is finished exactly when a game-over reason is set; a winner
\* is set only together with the reason memukul; and when the reason is
\* memukul the winner holds exactly 1 card, has at least one declared meld
\* and has hasLaidRun.
C32_EndStateConsistent ==
  /\ (status = "finished") <=> (gameOverReason # "none")
  /\ winner # Undefined => gameOverReason = "memukul"
  /\ gameOverReason = "memukul" =>
       /\ winner \in Players
       /\ Len(hand[winner]) = 1
       /\ Len(melds[winner]) > 0
       /\ hasLaidRun[winner]

\* a player who melds the whole hand is declared the memukul winner with no
\* card left
C32_MeldedOut ==
  /\ lastCall.op = "createMeldResume"
  /\ status = "finished"
  /\ gameOverReason = "memukul"
  /\ winner \in Players
  /\ hand[winner] = <<>>
  /\ melds[winner] = <<[type |-> "run", cards |-> <<0, 13, 26, 39>>,
                        playerId |-> winner]>>

C32_StatusAndWinner ==
  /\ (status = "finished") <=> (gameOverReason # "none")
  /\ winner # Undefined => gameOverReason = "memukul"

\* C34: in a turn whose draw came from the discard pile (lastDrawFromDiscard
\* is set by that draw and cleared when the turn passes) no discardCard is
\* accepted before a createMeld has been accepted: no discardCard is accepted
\* while the flag is set.
C34_NoDiscardAfterPileDraw ==
  [][(lastCall'.op = "discardCard" /\ lastDrawFromDiscard) => ~lastCall'.ok]_vars

\* the current player, in discardPhase after a draw from the discard pile and
\* without a meld declared in the turn, has been refused the discard of a card
\* of the own hand
C34_Witness ==
  /\ lastCall = [op |-> "discardCard", own |-> TRUE, ok |-> FALSE]
  /\ status = "playing"
  /\ currentTurnPhase = "discardPhase"
  /\ lastDrawFromDiscard
  /\ lastAction.type = "draw"
  /\ hand[currentPlayerIndex] # <<>>
  /\ \A cardId \in HandIds(currentPlayerIndex) :
       ~discardCard(Game, currentPlayerIndex, cardId).ok

\* a card of the pile matches a card of the hand: same rank with a different
\* suit, or same suit with card values differing by exactly 1
ClaimMatch(a, b) ==
  \/ Rank(a) = Rank(b) /\ Suit(a) # Suit(b)
  \/ Suit(a) = Suit(b) /\ (value(a) - value(b) = 1 \/ value(b) - value(a) = 1)
ClaimMatchesHand(h, c) == \E i \in 1..Len(h) : ClaimMatch(h[i], c)
\* how many cards at the top of the pile match, one after the other, some
\* card of the hand
ClaimTopRun(h, pile) ==
  CHOOSE k \in 0..Len(pile) :
    /\ \A i \in (Len(pile) - k + 1)..Len(pile) : ClaimMatchesHand(h, pile[i])
    /\ k < Len(pile) => ~ClaimMatchesHand(h, pile[Len(pile) - k])

HasRunMeld(ms) == \E i \in 1..Len(ms) : ms[i].type = "run"

\* C36: for every player hasLaidRun is true exactly when the declared melds
\* of that player include a run, before and after every step, and once true
\* it never becomes false.
C36_HasLaidRunRatchet ==
  [][\A p \in Players :
       /\ hasLaidRun[p] <=> HasRunMeld(melds[p])
       /\ hasLaidRun'[p] <=> HasRunMeld(melds'[p])
       /\ hasLaidRun[p] => hasLaidRun'[p]]_vars

\* a player without a meld has declared a run and has hasLaidRun
C36_Witness ==
  /\ lastCall.op = "createMeldResume"
  /\ \E p \in Players :
       /\ Len(melds[p]) = 1
       /\ melds[p][1].type = "run"
       /\ hasLaidRun[p]

\* C37: firstPlayerDiscarded is false from start() until the first accepted
\* discardCard of the round and true in every state after it; no step sets
\* it back to false.
C37_FirstDiscardFlag ==
  [][/\ (lastCall'.op = "start" /\ lastCall'.ok) => ~firstPlayerDiscarded'
     /\ (lastCall'.op = "discardCard" /\ lastCall'.ok) => firstPlayerDiscarded'
     /\ (~firstPlayerDiscarded /\ ~(lastCall'.op = "discardCard" /\ lastCall'.ok))
          => ~firstPlayerDiscarded'
     /\ firstPlayerDiscarded => firstPlayerDiscarded']_vars

\* after the first discard of a started round the flag is still true when a
\* later call has been made
C37_Witness ==
  /\ origin = "new"
  /\ status = "playing"
  /\ lastCall.op = "drawCard"
  /\ Len(discardPile) = 1
  /\ firstPlayerDiscarded

\* every ordering of the cards of a group
Orderings(cards) ==
  {[i \in 1..Len(cards) |-> cards[f[i]]] :
     f \in {h \in [1..Len(cards) -> 1..Len(cards)] :
              \A i, j \in 1..Len(cards) : i # j => h[i] # h[j]}}

\* C38: isValidMeld gives the same result (valid or invalid, and the same
\* type) for every ordering of the same group of cards.
C38_MeldOrderIndependent ==
  probe.fn = "isValidMeld" =>
    \A other \in Orderings(probe.cards) :
      isValidMeld(other) = [valid |-> probe.valid, type |-> probe.type]

\* 9♥ before two jokers is a run
C38_AcceptedOrder ==
  /\ probe.fn = "isValidMeld"
  /\ probe.cards = <<8, 97, 97>>
  /\ probe.valid /\ probe.type = "run"

\* a joker, 9♥ and a joker is a set, not a run
C38_OtherOrder ==
  /\ probe.fn = "isValidMeld"
  /\ probe.cards = <<97, 8, 97>>
  /\ probe.valid /\ probe.type = "set"

====
